---- MODULE Spec2Model ----
(***************************************************************************)
(* Model of RestHelper (src/Manila/Rocky/helper.py): the session / call    *)
(* layer of the Huawei OceanStor Manila driver.                            *)
(*                                                                         *)
(* Spec      : a driver start-up (optional login()) followed by            *)
(*             NumThreads threads that invoke call(), MaxCalls times in    *)
(*             all; call(), relogin(), login(), logout() and do_call()     *)
(*             are interleaved at their blocking points (read/write lock,  *)
(*             semaphore, HTTP request in flight).                         *)
(* SpecGate  : LoadFactor * 30 anonymous do_call() invocations competing   *)
(*             for the semaphore, counted instead of named.                *)
(* SpecPager : _get_info_by_range() over a list of MaxItems objects at     *)
(*             most, with a page size of MaxPage at most.                  *)
(* SpecLock  : call() of NumThreads + 1 threads seen at its lock points    *)
(*             only, calls without end, with fair scheduling.              *)
(***************************************************************************)
EXTENDS Integers, Sequences, FiniteSets, TLC

(* ------------------------------ bounds -------------------------------- *)
NumThreads == 2
MaxCalls == 3
NumEndpoints == 2
MaxTokens == 2
LoadFactor == 10
MaxItems == 7
MaxPage == 3

(* ------------------- constants of the constants module ---------------- *)
\* manila.share.drivers.huawei.constants is not part of src/; the codes are
\* opaque sentinels, only their distinctness and set membership matter.
ERROR_CONNECT_TO_SERVER == -403
ERROR_UNAUTHORIZED_TO_SERVER == -401
RELOGIN_ERROR_PASS == 1
BUSINESS_ERROR == 2
HTTP_ERROR_STATUS == 500

(* ---------------------- constants of helper.py ------------------------ *)
SEMAPHORE_VALUE == 30

Driver == 0
Threads == 1..NumThreads
\* SpecLock: one thread more, so that two can read while a third waits
LockThreads == 1..(NumThreads + 1)
Procs == {Driver} \cup Threads
NoThread == -1

nas_address == [i \in 1..NumEndpoints |-> i]

NoUrl == <<>>
NoToken == 0

\* codes the array can put in the JSON envelope of an ordinary request
ServerCodes == {0, ERROR_UNAUTHORIZED_TO_SERVER, RELOGIN_ERROR_PASS, BUSINESS_ERROR}

VARIABLES
    url,            \* self.url: NoUrl, <<endpoint>> or <<endpoint, "deviceid">>
    session,        \* self.session: [live, iBaseToken]
    semaphore,      \* free slots of self.semaphore
    readers,        \* threads holding call_lock.read_lock()
    writer,         \* thread holding call_lock.write_lock(), or NoThread
    reloginCodes,   \* constants.RELOGIN_ERROR_CODE (fixed at start)
    nextToken,      \* array side: the next token a login hands out
    pc,             \* position of each process
    loc,            \* the locals of the running call() / login() of each process,
                    \* and what the running invocation has done so far:
                    \*   ctx            the caller of the running do_call
                    \*   item           login(): index of item_url in nas_address
                    \*   branch         relogin(): the branch taken
                    \*   old_token      call(): old_token
                    \*   relogin_result call(): relogin_result
                    \*   accountstate   login(): accountstate of the login that returned 0
                    \*   logoutFailed   relogin(): logout() raised (and was caught)
                    \*   reqTok         iBaseToken header of the request in flight
                    \*   nSent          requests of the caller sent by this call()
                    \*   firstSent      the first attempt went to the transport
                    \*   nRelogin       relogin() invocations of this call()
                    \*   nNet           login/logout requests sent by this call()
                    \*   peerRelogged   a peer waiting with the same old_token relogged in
                    \*   cohortRelogged ... and both had sent their first attempt with it
    result,         \* call(): error code of result, what call() returns
    attempt,        \* how the last attempt (first or retry) of call() ended
    exc,            \* exception that left call(), or login() of the driver: the
                    \* msg of a ShareBackendException, else the name of its type
    calls,          \* number of call() invocations started so far
    sawRelogin,     \* history: some attempt returned a code of RELOGIN_ERROR_CODE
    gStart,         \* SpecGate: do_call invocations that have not acquired yet
    gFly,           \* SpecGate: do_call invocations with the request in flight
    gDone,          \* SpecGate: do_call invocations that returned
    MAX_QUERY_COUNT, \* SpecPager: constants.MAX_QUERY_COUNT (fixed at start)
    dataset,        \* SpecPager: array side, the objects of the queried type
    pgpc,           \* SpecPager: position of _get_info_by_range
    range_start,    \* SpecPager: _get_info_by_range: range_start
    info_list,      \* SpecPager: _get_info_by_range: info_list
    fetched,        \* SpecPager: history, <<range_start, len(info)>> of each func call
    lk              \* SpecLock: position of each thread in call()

vars == <<url, session, semaphore, readers, writer, reloginCodes, nextToken, pc, loc,
          result, attempt, exc, calls, sawRelogin, gStart, gFly, gDone,
          MAX_QUERY_COUNT, dataset, pgpc, range_start, info_list, fetched, lk>>

gateVars == <<gStart, gFly, gDone>>

pagerVars == <<MAX_QUERY_COUNT, dataset, pgpc, range_start, info_list, fetched>>

(* ------------------------------ helpers ------------------------------- *)

\* _error_code(result) != 0, as login() tests it
IsError(r) == r.code # 0

\* mutant: init_http_head() that carries the iBaseToken header over
FreshSession_KeepToken == [live |-> TRUE, iBaseToken |-> session.iBaseToken]
\* init_http_head(): a fresh requests.Session without iBaseToken
FreshSession == [live |-> TRUE, iBaseToken |-> NoToken]

\* mutant: acquire() that never blocks
SemCanAcquire_NoBlock(s) == TRUE
\* threading.Semaphore: acquire() blocks while the value is 0
SemCanAcquire(s) == s > 0
SemAcquire(s) == s - 1

\* mutant: release() after the try block instead of in a finally clause
SemRelease_NotOnException(s, kind) == IF kind = "exc" THEN s ELSE s + 1
\* do_call(): the finally clause runs for every way the request ends
SemRelease(s, kind) == s + 1

\* mutant: a plain mutex in the place of the reader/writer lock
CanRead_Exclusive == writer = NoThread /\ readers = {}
\* ReaderWriterLock: a reader enters when no writer is active
CanRead == writer = NoThread
\* mutant: relogin() without the write lock
CanWrite_Always == TRUE
\* mutant: a writer that does not wait for the readers to leave
CanWrite_IgnoreReaders == writer = NoThread
\* mutant: a writer that does not wait for another writer to leave
CanWrite_IgnoreWriter == readers = {}
\* ReaderWriterLock: a writer enters when nobody holds the lock
CanWrite == readers = {} /\ writer = NoThread

\* mutant: do_call() without the except clause of lines 100-105
DoCallResult_NoCatch(kind, code, tok, expired) ==
    CASE kind = "exc"  -> [kind |-> kind, raised |-> "ConnectionError", code |-> 0,
                           token |-> NoToken, expired |-> FALSE]
      [] kind = "http" -> [kind |-> kind, raised |-> "none", code |-> HTTP_ERROR_STATUS,
                           token |-> NoToken, expired |-> FALSE]
      [] kind = "json" -> [kind |-> kind, raised |-> "none", code |-> code,
                           token |-> tok, expired |-> expired]
      [] OTHER         -> [kind |-> kind, raised |-> "ValueError", code |-> 0,
                           token |-> NoToken, expired |-> FALSE]

\* do_call(): the value handed to the caller for each way the request ends
\*   exc     : the request raised           -> connect-failure envelope (lines 100-105)
\*   http    : raise_for_status() raised    -> envelope with the status code (109-113)
\*   json    : res.json() is the envelope   (115-119)
\*   badjson : res.json() raised ValueError, which leaves do_call (115)
DoCallResult(kind, code, tok, expired) ==
    CASE kind = "exc"  -> [kind |-> kind, raised |-> "none", code |-> ERROR_CONNECT_TO_SERVER,
                           token |-> NoToken, expired |-> FALSE]
      [] kind = "http" -> [kind |-> kind, raised |-> "none", code |-> HTTP_ERROR_STATUS,
                           token |-> NoToken, expired |-> FALSE]
      [] kind = "json" -> [kind |-> kind, raised |-> "none", code |-> code,
                           token |-> tok, expired |-> expired]
      [] OTHER         -> [kind |-> kind, raised |-> "ValueError", code |-> 0,
                           token |-> NoToken, expired |-> FALSE]

\* the ways the array (or the network) can answer a request of caller c
Answers(c) ==
    {DoCallResult(k, 0, NoToken, FALSE) : k \in {"exc", "http", "badjson"}}
    \cup
    IF c = "login"
    THEN {DoCallResult("json", BUSINESS_ERROR, NoToken, FALSE)}
         \cup {DoCallResult("json", 0, nextToken, e) : e \in {b \in BOOLEAN : nextToken <= MaxTokens}}
    ELSE IF c \in {"logout", "pwlogout"}
    THEN {DoCallResult("json", cd, NoToken, FALSE) : cd \in {0, BUSINESS_ERROR}}
    ELSE {DoCallResult("json", cd, NoToken, FALSE) : cd \in ServerCodes}

\* a code of the re-login-required set
IsReloginCode(code) == code \in reloginCodes

\* mutant: a relogin on every error code
NeedsRelogin_AnyError(code) == code # 0
\* mutant: a relogin also on a business error of the array
NeedsRelogin_OnBusinessError(code) == code \in reloginCodes \cup {BUSINESS_ERROR}
\* call(): whether the code of the first attempt starts a relogin (line 230)
NeedsRelogin(code) == code \in reloginCodes

\* the locals of a process that is not inside call() or login()
NoLocals ==
    [ctx |-> "none", item |-> 0, branch |-> "none", old_token |-> NoToken,
     relogin_result |-> "none", reqTok |-> NoToken, nSent |-> 0, firstSent |-> FALSE,
     nRelogin |-> 0, nNet |-> 0, peerRelogged |-> FALSE, cohortRelogged |-> FALSE,
     accountstate |-> "none", logoutFailed |-> FALSE]

NoAttempt == [n |-> 0, kind |-> "none", code |-> 0]

Upd(f, p, v) == [f EXCEPT ![p] = v]

(* ------------------------------- Init --------------------------------- *)

InitCommon ==
    /\ url = NoUrl
    /\ session = [live |-> FALSE, iBaseToken |-> NoToken]
    /\ semaphore = SEMAPHORE_VALUE
    /\ readers = {}
    /\ writer = NoThread
    /\ reloginCodes \in {{ERROR_UNAUTHORIZED_TO_SERVER},
                         {ERROR_UNAUTHORIZED_TO_SERVER, ERROR_CONNECT_TO_SERVER}}
    /\ nextToken = 1
    /\ loc = [p \in Procs |-> NoLocals]
    /\ result = [p \in Procs |-> 0]
    /\ attempt = [p \in Procs |-> NoAttempt]
    /\ exc = [p \in Procs |-> "none"]
    /\ calls = 0
    /\ sawRelogin = FALSE

\* SpecLock is not running
LockOff == lk = [i \in LockThreads |-> "off"]

\* no _get_info_by_range is running
PagerOff ==
    /\ MAX_QUERY_COUNT = 1 /\ dataset = <<>> /\ pgpc = "off"
    /\ range_start = 0 /\ info_list = <<>> /\ fetched = <<>>

Init ==
    /\ InitCommon
    /\ pc = [p \in Procs |-> IF p = Driver THEN "boot" ELSE "idle"]
    /\ gStart = 0 /\ gFly = 0 /\ gDone = 0
    /\ PagerOff /\ LockOff

InitGate ==
    /\ InitCommon
    /\ pc = [p \in Procs |-> "halt"]
    /\ gStart = LoadFactor * SEMAPHORE_VALUE /\ gFly = 0 /\ gDone = 0
    /\ PagerOff /\ LockOff

\* a list query about to start: the page size of the build and the objects
\* the array holds
InitPager ==
    /\ InitCommon
    /\ pc = [p \in Procs |-> "halt"]
    /\ gStart = 0 /\ gFly = 0 /\ gDone = 0
    /\ MAX_QUERY_COUNT \in 1..MaxPage
    /\ dataset \in {[i \in 1..n |-> i] : n \in 0..MaxItems}
    /\ pgpc = "idle"
    /\ range_start = 0 /\ info_list = <<>> /\ fetched = <<>>
    /\ LockOff

\* the threads of a logged-in helper, none inside call()
InitLock ==
    /\ InitCommon
    /\ pc = [p \in Procs |-> "halt"]
    /\ gStart = 0 /\ gFly = 0 /\ gDone = 0
    /\ PagerOff
    /\ lk = [i \in LockThreads |-> "idle"]

(* ------------------------------ do_call ------------------------------- *)

\* do_call(), line 96 and the request leaving at line 99: the headers of
\* self.session travel with the request
DoCallAcquire(p) ==
    /\ pc[p] = "acquire"
    /\ SemCanAcquire(semaphore)
    /\ semaphore' = SemAcquire(semaphore)
    /\ pc' = Upd(pc, p, "flight")
    /\ loc' = Upd(loc, p,
          IF loc[p].ctx \in {"first", "retry"}
          THEN [loc[p] EXCEPT !.reqTok = session.iBaseToken,
                              !.nSent = @ + 1,
                              !.firstSent = @ \/ loc[p].ctx = "first"]
          ELSE [loc[p] EXCEPT !.reqTok = session.iBaseToken,
                              !.nNet = @ + 1])
    /\ UNCHANGED <<url, session, readers, writer, reloginCodes, nextToken,
                   result, attempt, exc, calls, sawRelogin, gateVars, pagerVars, lk>>

\* do_call(), lines 98-119: the request of p ends with answer a, the slot
\* is released
DoCallReturn(p, a) ==
    /\ pc[p] = "flight"
    /\ semaphore' = SemRelease(semaphore, a.kind)
    /\ nextToken' = IF a.token # NoToken THEN nextToken + 1 ELSE nextToken

(* ------------------------------- login -------------------------------- *)

\* mutant: call() that sends the retry whatever relogin() returned
AfterRelogin_AlwaysRetry(relogin_result) == "want_retry"
\* call(), lines 235 and 245: the retry only if relogin_result is true
AfterRelogin(relogin_result) == IF relogin_result THEN "want_retry" ELSE "done"

\* login() returns (ok) or raises e: back in relogin() (lines 184-188,
\* 201-205, 214) and from there in call() (lines 233-235, 245-247), or back
\* in the driver's start-up
\* with l the locals of p when login() ends
EndLogin(p, l, ok, e) ==
    IF p = Driver
    THEN /\ pc' = Upd(pc, p, IF ok THEN "done" ELSE "raised")
         /\ exc' = Upd(exc, p, e)
         /\ loc' = Upd(loc, p, NoLocals)
         /\ UNCHANGED writer
    ELSE /\ pc' = Upd(pc, p, AfterRelogin(ok))
         /\ loc' = Upd(loc, p, IF AfterRelogin(ok) = "want_retry"
                               THEN [l EXCEPT !.relogin_result = IF ok THEN "true" ELSE "false"]
                               ELSE NoLocals)
         /\ writer' = NoThread
         /\ UNCHANGED exc

\* mutant: login() gives up after the first item_url
LoginExhausted_AfterFirst(i) == i > 1
\* login(), line 136 and the else of the for loop (line 166): no item_url
\* is left
LoginExhausted(i) == i > Len(nas_address)

\* mutant: the for loop walks nas_address from its end
ItemUrl_Reversed(i) == nas_address[Len(nas_address) + 1 - i]
\* login(), line 136: item_url of the i-th iteration
ItemUrl(i) == nas_address[i]

\* mutant: login() that does not look at accountstate
PwdExpired_Ignored(state) == FALSE
\* login(), lines 157-158: accountstate in constants.PWD_EXPIRED_OR_INITIAL
PwdExpired(state) == state = "expired"

\* login(), lines 136-148 and 166-169: the next item_url, or the for-else
LoginIter(p) ==
    /\ pc[p] = "login_iter"
    /\ IF LoginExhausted(loc[p].item)
       THEN /\ UNCHANGED <<url, session>>
            /\ EndLogin(p, loc[p], FALSE, "All url login fail.")
       ELSE /\ url' = <<ItemUrl(loc[p].item)>>
            /\ session' = FreshSession
            /\ loc' = Upd(loc, p, [loc[p] EXCEPT !.ctx = "login"])
            /\ pc' = Upd(pc, p, "acquire")
            /\ UNCHANGED <<writer, exc>>
    /\ UNCHANGED <<semaphore, readers, reloginCodes, nextToken, result, attempt, calls,
                   sawRelogin, gateVars, pagerVars, lk>>

\* login(), line 157: accountstate in the data of the login result
AccountState(a) == IF a.expired THEN "expired" ELSE "normal"

\* login(), lines 146-165: the login request is back
LoginReturn(p) ==
    /\ loc[p].ctx = "login"
    /\ \E a \in Answers("login") :
        /\ DoCallReturn(p, a)
        /\ IF a.raised # "none"
           THEN /\ UNCHANGED <<url, session>>
                /\ EndLogin(p, loc[p], FALSE, a.raised)
           ELSE IF IsError(a)
           THEN /\ loc' = Upd(loc, p, [loc[p] EXCEPT !.item = @ + 1])
                /\ pc' = Upd(pc, p, "login_iter")
                /\ UNCHANGED <<url, session, writer, exc>>
           ELSE /\ url' = <<ItemUrl(loc[p].item), "deviceid">>
                /\ session' = [session EXCEPT !.iBaseToken = a.token]
                /\ IF PwdExpired(AccountState(a))
                   THEN /\ loc' = Upd(loc, p, [loc[p] EXCEPT !.ctx = "pwlogout",
                                                             !.accountstate = AccountState(a)])
                        /\ pc' = Upd(pc, p, "acquire")
                        /\ UNCHANGED <<writer, exc>>
                   ELSE EndLogin(p, [loc[p] EXCEPT !.accountstate = AccountState(a)],
                                 TRUE, "none")
    /\ UNCHANGED <<readers, reloginCodes, result, attempt, calls, sawRelogin, gateVars, pagerVars, lk>>

(* ------------------------------- logout ------------------------------- *)

\* logout(), lines 174-175 with _assert_result(), lines 42-47: what leaves
\* logout() when its request ended with a: the exception of do_call, the
\* ShareBackendException of _assert_result for a non-zero code, or nothing
LogoutRaises(a) ==
    IF a.raised # "none" THEN a.raised
    ELSE IF IsError(a) THEN "Logout session error."
    ELSE "none"

\* mutant: relogin() that gives up when logout() raised
ReloginAfterLogout_GiveUp(e) == IF e = "none" THEN "login_iter" ELSE "done"
\* relogin(), lines 196-202: what logout() raises is caught and logged,
\* login() follows in either case
ReloginAfterLogout(e) == "login_iter"

\* logout(), lines 174-175, seen from its two callers: relogin() swallows
\* what _assert_result raises and goes on to login() (lines 196-202);
\* inside login() that exception, or else login's own (lines 159-163), ends
\* login()
LogoutReturn(p) ==
    /\ loc[p].ctx \in {"logout", "pwlogout"}
    /\ \E a \in Answers(loc[p].ctx) :
        /\ DoCallReturn(p, a)
        /\ IF loc[p].ctx = "logout"
           THEN /\ loc' = Upd(loc, p, [loc[p] EXCEPT !.item = 1,
                                                     !.logoutFailed = LogoutRaises(a) # "none"])
                /\ pc' = Upd(pc, p, ReloginAfterLogout(LogoutRaises(a)))
                /\ UNCHANGED <<writer, exc>>
           ELSE EndLogin(p, loc[p], FALSE,
                         IF LogoutRaises(a) # "none" THEN LogoutRaises(a)
                         ELSE "Password has expired or initial")
    /\ UNCHANGED <<url, session, readers, reloginCodes, result, attempt, calls,
                   sawRelogin, gateVars, pagerVars, lk>>

(* -------------------------------- call -------------------------------- *)

\* mutant: call() that asks for the write lock inside its read_lock block
LeaveReadLock_Kept(rs, t) == rs
\* call(), the end of the with blocks of lines 217 and 236: the read lock
\* is released
LeaveReadLock(rs, t) == rs \ {t}

\* mutant: call() with the test of self.url inverted
UrlIsSet_Inverted(u) == u = NoUrl
\* mutant: call() that sends the first attempt without looking at self.url
UrlIsSet_Always(u) == TRUE
\* call(), line 218: if self.url
UrlIsSet(u) == u # NoUrl

\* call(), lines 217-228 (and 230 when no request is made): enter the read
\* lock, read the Session; without a url the local unauthorized envelope.
\* Calls are made once the start-up is over; a start-up whose login()
\* raised ends the driver.
CallBegin(t) ==
    /\ pc[t] \in {"idle", "done", "raised"}
    /\ pc[Driver] \in {"done", "skipped"}
    /\ calls < MaxCalls
    /\ CanRead
    /\ calls' = calls + 1
    /\ exc' = Upd(exc, t, "none")
    /\ attempt' = Upd(attempt, t, NoAttempt)
    /\ IF UrlIsSet(url)
       THEN /\ loc' = Upd(loc, t, [NoLocals EXCEPT !.old_token = session.iBaseToken,
                                                   !.ctx = "first"])
            /\ readers' = readers \cup {t}
            /\ result' = Upd(result, t, 0)
            /\ pc' = Upd(pc, t, "acquire")
       ELSE /\ loc' = Upd(loc, t, NoLocals)
            /\ result' = Upd(result, t, ERROR_UNAUTHORIZED_TO_SERVER)
            /\ pc' = Upd(pc, t, IF NeedsRelogin(ERROR_UNAUTHORIZED_TO_SERVER)
                                THEN "want_write" ELSE "done")
            /\ UNCHANGED readers
    /\ UNCHANGED <<url, session, semaphore, writer, reloginCodes, nextToken,
                   sawRelogin, gateVars, pagerVars, lk>>

\* call(), lines 220 and 230-232: the first attempt is back, the read lock
\* is left, the code decides
FirstReturn(t) ==
    /\ loc[t].ctx = "first"
    /\ \E a \in Answers("first") :
        /\ DoCallReturn(t, a)
        /\ attempt' = Upd(attempt, t, [n |-> 1, kind |-> a.kind, code |-> a.code])
        /\ IF a.raised # "none"
           THEN /\ pc' = Upd(pc, t, "raised")
                /\ exc' = Upd(exc, t, a.raised)
                /\ loc' = Upd(loc, t, NoLocals)
                /\ UNCHANGED <<result, sawRelogin>>
           ELSE /\ result' = Upd(result, t, a.code)
                /\ pc' = Upd(pc, t, IF NeedsRelogin(a.code) THEN "want_write" ELSE "done")
                /\ loc' = Upd(loc, t, IF NeedsRelogin(a.code) THEN loc[t] ELSE NoLocals)
                /\ sawRelogin' = (sawRelogin \/ IsReloginCode(a.code))
                /\ UNCHANGED exc
    /\ readers' = LeaveReadLock(readers, t)
    /\ UNCHANGED <<url, session, writer, reloginCodes, calls, gateVars, pagerVars, lk>>

\* mutant: relogin() that logs out and in again whenever a url is set
ReloginBranch_NeverOther(t) == IF url = NoUrl THEN "login" ELSE "relogin"
\* mutant: relogin() without the comparison of old_token with the token held
ReloginBranch_Blind(t) == IF url = NoUrl THEN "login" ELSE "relogin"
\* relogin(): which of its three branches runs (lines 183, 195, 212)
ReloginBranch(t) ==
    IF url = NoUrl THEN "login"
    ELSE IF loc[t].old_token = session.iBaseToken THEN "relogin"
    ELSE "other"

\* history: the peers of t that wait for the write lock with t's old_token
Peers(t) == {u \in Threads \ {t} : pc[u] = "want_write"
                                   /\ loc[u].old_token = loc[t].old_token}

\* call(), lines 233-234 with relogin(), lines 182-197 and 212-214: enter
\* the write lock and start relogin(old_token)
CallRelogin(t) ==
    /\ pc[t] = "want_write"
    /\ CanWrite
    /\ IF ReloginBranch(t) = "other"
       THEN /\ loc' = Upd(loc, t, [loc[t] EXCEPT !.nRelogin = @ + 1,
                                                 !.branch = "other",
                                                 !.relogin_result = "true"])
            /\ pc' = Upd(pc, t, "want_retry")
            /\ UNCHANGED writer
       ELSE /\ writer' = t
            /\ loc' = [u \in Procs |->
                 IF u = t
                 THEN [loc[t] EXCEPT !.nRelogin = @ + 1,
                                     !.branch = ReloginBranch(t),
                                     !.item = 1,
                                     !.ctx = IF ReloginBranch(t) = "login" THEN @ ELSE "logout"]
                 ELSE IF u \in Peers(t)
                 THEN [loc[u] EXCEPT !.peerRelogged = TRUE,
                                     !.cohortRelogged = @ \/ (loc[u].firstSent /\ loc[t].firstSent)]
                 ELSE loc[u]]
            /\ pc' = Upd(pc, t, IF ReloginBranch(t) = "login" THEN "login_iter" ELSE "acquire")
    /\ UNCHANGED <<url, session, semaphore, readers, reloginCodes, nextToken,
                   result, attempt, exc, calls, sawRelogin, gateVars, pagerVars, lk>>

\* call(), lines 236-237 with do_call(), line 81: enter the read lock again
\* and compose the url of the retry
CallRetry(t) ==
    /\ pc[t] = "want_retry"
    /\ CanRead
    /\ IF url = NoUrl
       THEN /\ pc' = Upd(pc, t, "raised")
            /\ exc' = Upd(exc, t, "TypeError")
            /\ loc' = Upd(loc, t, NoLocals)
            /\ UNCHANGED readers
       ELSE /\ readers' = readers \cup {t}
            /\ loc' = Upd(loc, t, [loc[t] EXCEPT !.ctx = "retry"])
            /\ pc' = Upd(pc, t, "acquire")
            /\ UNCHANGED exc
    /\ UNCHANGED <<url, session, semaphore, writer, reloginCodes, nextToken,
                   result, attempt, calls, sawRelogin, gateVars, pagerVars, lk>>

\* mutant: call() that returns the code of the retry as it is
RetryCode_Verbatim(code) == code
\* call(), lines 238-244: the code call() returns for the code of the retry
RetryCode(code) == IF code = RELOGIN_ERROR_PASS THEN 0 ELSE code

\* mutant: a relogin-required code on the retry starts over
RetryNext_Loop(code) == IF NeedsRelogin(code) THEN "want_write" ELSE "done"
\* call(), lines 235-247: whatever the code of the retry, call() returns
\* (there is no loop around the relogin and the retry)
RetryNext(code) == "done"

\* call(), lines 237-247: the retry is back, the read lock is left, call()
\* returns
RetryReturn(t) ==
    /\ loc[t].ctx = "retry"
    /\ \E a \in Answers("retry") :
        /\ DoCallReturn(t, a)
        /\ attempt' = Upd(attempt, t, [n |-> 2, kind |-> a.kind, code |-> a.code])
        /\ IF a.raised # "none"
           THEN /\ pc' = Upd(pc, t, "raised")
                /\ exc' = Upd(exc, t, a.raised)
                /\ loc' = Upd(loc, t, NoLocals)
                /\ UNCHANGED <<result, sawRelogin>>
           ELSE /\ result' = Upd(result, t, RetryCode(a.code))
                /\ pc' = Upd(pc, t, RetryNext(a.code))
                /\ loc' = Upd(loc, t, IF RetryNext(a.code) = "done" THEN NoLocals ELSE loc[t])
                /\ sawRelogin' = (sawRelogin \/ IsReloginCode(a.code))
                /\ UNCHANGED exc
    /\ readers' = LeaveReadLock(readers, t)
    /\ UNCHANGED <<url, session, writer, reloginCodes, calls, gateVars, pagerVars, lk>>

(* ------------------------------ start-up ------------------------------ *)

\* the driver sets the helper up with login() before any call() ...
BootLogin ==
    /\ pc[Driver] = "boot"
    /\ loc' = Upd(loc, Driver, [NoLocals EXCEPT !.item = 1])
    /\ pc' = Upd(pc, Driver, "login_iter")
    /\ UNCHANGED <<url, session, semaphore, readers, writer, reloginCodes, nextToken,
                   result, attempt, exc, calls, sawRelogin, gateVars, pagerVars, lk>>

\* ... or call() is invoked on the helper as __init__ left it
BootSkip ==
    /\ pc[Driver] = "boot"
    /\ pc' = Upd(pc, Driver, "skipped")
    /\ UNCHANGED <<url, session, semaphore, readers, writer, reloginCodes, nextToken, loc,
                   result, attempt, exc, calls, sawRelogin, gateVars, pagerVars, lk>>

Next ==
    \/ BootLogin
    \/ BootSkip
    \/ \E p \in Procs : DoCallAcquire(p)
    \/ \E p \in Procs : LoginIter(p)
    \/ \E p \in Procs : LoginReturn(p)
    \/ \E p \in Procs : LogoutReturn(p)
    \/ \E t \in Threads : CallBegin(t)
    \/ \E t \in Threads : FirstReturn(t)
    \/ \E t \in Threads : CallRelogin(t)
    \/ \E t \in Threads : CallRetry(t)
    \/ \E t \in Threads : RetryReturn(t)

Spec == Init /\ [][Next]_vars

(* ---------------------- the gate under load --------------------------- *)

mainVars == <<url, session, readers, writer, reloginCodes, nextToken, pc, loc,
              result, attempt, exc, calls, sawRelogin>>

\* do_call(), line 96, of one of the waiting invocations
GateAcquire ==
    /\ gStart > 0
    /\ SemCanAcquire(semaphore)
    /\ semaphore' = SemAcquire(semaphore)
    /\ gStart' = gStart - 1
    /\ gFly' = gFly + 1
    /\ UNCHANGED <<gDone, mainVars, pagerVars, lk>>

\* do_call(), lines 98-107, of one of the invocations in flight
GateReturn ==
    /\ gFly > 0
    /\ \E k \in {"exc", "http", "json", "badjson"} :
           semaphore' = SemRelease(semaphore, k)
    /\ gFly' = gFly - 1
    /\ gDone' = gDone + 1
    /\ UNCHANGED <<gStart, mainVars, pagerVars, lk>>

NextGate == GateAcquire \/ GateReturn

SpecGate == InitGate /\ [][NextGate]_vars

(* ------------------------ _get_info_by_range -------------------------- *)

Min(a, b) == IF a < b THEN a ELSE b

\* func(range_start, range_end, params), e.g. _get_hypermetro_domain: the
\* objects with index range_start .. range_end - 1 that the array holds
RangeQuery(start, end) == SubSeq(dataset, start + 1, Min(end, Len(dataset)))

\* mutant: the loop without its break
ShortPage_Never(info) == FALSE
\* mutant: the loop that stops on an empty page only
ShortPage_Empty(info) == Len(info) = 0
\* _get_info_by_range, line 257: len(info) < constants.MAX_QUERY_COUNT
ShortPage(info) == Len(info) < MAX_QUERY_COUNT

\* _get_info_by_range, lines 251-252
PagerCall ==
    /\ pgpc = "idle"
    /\ pgpc' = "loop"
    /\ range_start' = 0
    /\ info_list' = <<>>
    /\ UNCHANGED <<MAX_QUERY_COUNT, dataset, fetched, mainVars, semaphore, gateVars, lk>>

\* _get_info_by_range, lines 254-261: one turn of the loop; func raises
\* when its request fails (_assert_result), and so does the pager
PagerFetch ==
    /\ pgpc = "loop"
    /\ \E ok \in BOOLEAN :
         LET range_end == range_start + MAX_QUERY_COUNT
             info == RangeQuery(range_start, range_end)
         IN  IF ~ok
             THEN /\ pgpc' = "raised"
                  /\ UNCHANGED <<range_start, info_list, fetched>>
             ELSE /\ info_list' = info_list \o info
                  /\ fetched' = Append(fetched, <<range_start, Len(info)>>)
                  /\ IF ShortPage(info)
                     THEN pgpc' = "returned" /\ UNCHANGED range_start
                     ELSE range_start' = range_start + MAX_QUERY_COUNT /\ UNCHANGED pgpc
    /\ UNCHANGED <<MAX_QUERY_COUNT, dataset, mainVars, semaphore, gateVars, lk>>

NextPager == PagerCall \/ PagerFetch

SpecPager == InitPager /\ [][NextPager]_vars

\* the thread that runs _get_info_by_range keeps running: the loop is
\* sequential code and every call of func returns or raises
SpecPagerFair == SpecPager /\ WF_vars(NextPager)

(* ----------------------- call() at its lock points -------------------- *)

lockFrame == <<url, session, semaphore, reloginCodes, nextToken, pc, loc, result,
               attempt, exc, calls, sawRelogin, gateVars, pagerVars>>

\* call(), lines 217-220: enter the read lock for the first attempt
LkCall(i) ==
    /\ lk[i] = "idle"
    /\ CanRead
    /\ readers' = readers \cup {i}
    /\ lk' = Upd(lk, i, "first")
    /\ UNCHANGED <<writer, lockFrame>>

\* call(), lines 220-232: the first attempt is back (do_call returned or
\* raised), the read lock is left; call() returns, or goes for the write
\* lock when the code is in RELOGIN_ERROR_CODE
LkFirstDone(i) ==
    /\ lk[i] = "first"
    /\ readers' = LeaveReadLock(readers, i)
    /\ \E relogin \in BOOLEAN : lk' = Upd(lk, i, IF relogin THEN "want_write" ELSE "idle")
    /\ UNCHANGED <<writer, lockFrame>>

\* call(), line 233: enter the write lock
LkRelogin(i) ==
    /\ lk[i] = "want_write"
    /\ CanWrite
    /\ writer' = i
    /\ lk' = Upd(lk, i, "relogin")
    /\ UNCHANGED <<readers, lockFrame>>

\* call(), lines 234-235 and 245-247: relogin() is back, the write lock is
\* left; the retry follows if it returned true, else call() returns
LkReloginDone(i) ==
    /\ lk[i] = "relogin"
    /\ writer' = NoThread
    /\ \E relogin_result \in BOOLEAN :
          lk' = Upd(lk, i, IF AfterRelogin(relogin_result) = "want_retry"
                           THEN "want_retry" ELSE "idle")
    /\ UNCHANGED <<readers, lockFrame>>

\* call(), line 236: enter the read lock for the retry
LkRetry(i) ==
    /\ lk[i] = "want_retry"
    /\ CanRead
    /\ readers' = readers \cup {i}
    /\ lk' = Upd(lk, i, "retry")
    /\ UNCHANGED <<writer, lockFrame>>

\* call(), lines 237-247: the retry is back, the read lock is left, call()
\* returns
LkRetryDone(i) ==
    /\ lk[i] = "retry"
    /\ readers' = LeaveReadLock(readers, i)
    /\ lk' = Upd(lk, i, "idle")
    /\ UNCHANGED <<writer, lockFrame>>

NextLock ==
    \/ \E i \in LockThreads : LkCall(i)
    \/ \E i \in LockThreads : LkFirstDone(i)
    \/ \E i \in LockThreads : LkRelogin(i)
    \/ \E i \in LockThreads : LkReloginDone(i)
    \/ \E i \in LockThreads : LkRetry(i)
    \/ \E i \in LockThreads : LkRetryDone(i)

\* Fair scheduling. A request, and a relogin() that holds the write lock,
\* come to an end (weak fairness: nothing can disable these steps). A
\* thread blocked in read_lock() or write_lock() gets the lock if the lock
\* is free for it again and again (strong fairness, more than the
\* condition variable of the lock promises). Nothing makes a thread start
\* another call().
LockFairness ==
    \A i \in LockThreads :
        /\ WF_vars(LkFirstDone(i)) /\ WF_vars(LkReloginDone(i)) /\ WF_vars(LkRetryDone(i))
        /\ SF_vars(LkRelogin(i)) /\ SF_vars(LkRetry(i))

SpecLock == InitLock /\ [][NextLock]_vars /\ LockFairness

\* requests between acquire and release in do_call
InFlight == gFly + Cardinality({p \in Procs : pc[p] = "flight"})

(* ============================== claims =============================== *)

\* a call() that is inside relogin() doing network work (branches 1 and 2)
InRelogin(t) == loc[t].branch \in {"login", "relogin"} /\ loc[t].relogin_result = "none"

\* a call() that holds the read lock: reading the Session or with its
\* first attempt or retry waiting for a slot or in flight
Reading(t) == pc[t] \in {"acquire", "flight"} /\ loc[t].ctx \in {"first", "retry"}

\* a process inside login()
InLogin(p) == \/ pc[p] = "login_iter"
              \/ pc[p] \in {"acquire", "flight"} /\ loc[p].ctx \in {"login", "pwlogout"}

\* C1: of the concurrent call()s that sent their request with the same token
\* and all got a re-login-required code, one performs the login/logout
\* requests and the others none: a call() that waited for the write lock
\* while such a peer relogged in sends no login or logout request itself.
C1_SingleReloginPerCohort ==
    \A t \in Threads : loc[t].cohortRelogged => loc[t].nNet = 0

\* C2 as stated: a relogin(old_token) that runs after a concurrent relogin
\* with the same old_token argument returns true at once, without a login
\* or logout request.
C2_SecondReloginIsFree ==
    [][\A t \in Threads :
          (loc[t].peerRelogged /\ pc[t] = "want_write" /\ pc'[t] # "want_write")
          => (pc'[t] = "want_retry" /\ loc'[t].relogin_result = "true"
              /\ loc'[t].branch = "other" /\ loc'[t].nNet = 0)]_vars

\* C2 amended: the same, for an old_token argument that is a token (the
\* first attempt was sent with an iBaseToken header).
C2_SecondReloginIsFreeForToken ==
    [][\A t \in Threads :
          (loc[t].peerRelogged /\ loc[t].old_token # NoToken
           /\ pc[t] = "want_write" /\ pc'[t] # "want_write")
          => (pc'[t] = "want_retry" /\ loc'[t].relogin_result = "true"
              /\ loc'[t].branch = "other" /\ loc'[t].nNet = 0)]_vars

C2_Witness ==
    \E t \in Threads : /\ loc[t].peerRelogged /\ loc[t].old_token # NoToken
                       /\ pc[t] = "want_retry" /\ loc[t].branch = "other"

\* C3: after a start-up login that succeeded, as long as no attempt has
\* returned a re-login-required code, no login or logout request is sent,
\* url and session stay as the login left them, and every request in
\* flight carries the token of the session.
C3_NoReloginWhileValid ==
    /\ [](pc[Driver] = "done" /\ ~sawRelogin =>
            /\ Len(url) = 2 /\ session.iBaseToken # NoToken
            /\ \A t \in Threads : /\ loc[t].nNet = 0 /\ loc[t].nRelogin = 0
                                  /\ (pc[t] = "flight" => loc[t].reqTok = session.iBaseToken))
    /\ [][pc[Driver] = "done" /\ ~sawRelogin' => UNCHANGED <<url, session>>]_vars

C3_Witness ==
    /\ pc[Driver] = "done" /\ ~sawRelogin
    /\ calls = MaxCalls
    /\ \A t \in Threads : pc[t] = "done"
    /\ \E t \in Threads : attempt[t].code = BUSINESS_ERROR

\* C4: a call() invokes relogin at most once and sends its request at most
\* twice.
C4_AtMostOneRetry ==
    \A t \in Threads : loc[t].nRelogin <= 1 /\ loc[t].nSent <= 2 /\ attempt[t].n <= 2

C4_Witness ==
    \E t \in Threads : /\ pc[t] = "done" /\ attempt[t].n = 2
                       /\ IsReloginCode(attempt[t].code)

\* C5: the requests in flight never exceed the capacity of the semaphore.
C5_GateBound == InFlight <= SEMAPHORE_VALUE

C5_Witness == gFly = SEMAPHORE_VALUE /\ gStart >= 9 * SEMAPHORE_VALUE

\* C6: free slots + requests in flight = capacity, in every state.
C6_SlotsConserved == semaphore + InFlight = SEMAPHORE_VALUE

C6_Witness ==
    /\ InFlight = 0 /\ semaphore = SEMAPHORE_VALUE
    /\ \E t \in Threads : pc[t] = "done" /\ attempt[t].kind = "exc"
    /\ \E t \in Threads : pc[t] = "raised" /\ attempt[t].kind = "badjson"

\* C7: no relogin runs its login or logout while another call() reads the
\* Session or has its first attempt or retry under way.
C7_NoMutationUnderReadLock ==
    \A w \in Threads : \A t \in Threads \ {w} : ~(InRelogin(w) /\ Reading(t))

C7_Witness ==
    \E w \in Threads : \E t \in Threads \ {w} :
        InRelogin(w) /\ pc[w] = "flight" /\ pc[t] = "want_retry"

\* C8: at most one call() is inside relogin().
C8_OneReloginAtATime ==
    \A w \in Threads : \A t \in Threads \ {w} : ~(InRelogin(w) /\ InRelogin(t))

C8_Witness ==
    \E w \in Threads : \E t \in Threads \ {w} :
        InRelogin(w) /\ pc[w] = "flight" /\ pc[t] = "want_write"

\* C9: outside a running login, base URL and token are both present or
\* both absent.
C9_UrlIffToken ==
    (\A p \in Procs : ~InLogin(p)) => ((url = NoUrl) <=> (session.iBaseToken = NoToken))

\* C10: a call() whose last attempt failed in the transport returns the
\* connect-failure envelope, and no exception of the transport leaves call().
C10_TransportFailureIsEnvelope ==
    \A t \in Threads :
        /\ (pc[t] = "done" /\ attempt[t].kind = "exc" => result[t] = ERROR_CONNECT_TO_SERVER)
        /\ (attempt[t].kind = "exc" => pc[t] # "raised")
        /\ exc[t] # "ConnectionError"

C10_Witness ==
    \E t \in Threads : /\ pc[t] = "done" /\ attempt[t].n = 2 /\ attempt[t].kind = "exc"
                       /\ result[t] = ERROR_CONNECT_TO_SERVER

\* C11: when the first attempt of call() comes back with an envelope whose
\* code is not in RELOGIN_ERROR_CODE, call() returns at once with that
\* code, raises nothing, has invoked no relogin and sent one request; and
\* from the moment call() read the Session to the return of the first
\* attempt, url and session are unchanged.
C11_OtherCodesVerbatim ==
    /\ [][\A t \in Threads :
            (pc[t] = "flight" /\ loc[t].ctx = "first" /\ pc'[t] # "flight"
             /\ attempt'[t].kind # "badjson" /\ ~IsReloginCode(attempt'[t].code))
            => /\ pc'[t] = "done" /\ exc'[t] = "none"
               /\ result'[t] = attempt'[t].code /\ attempt'[t].n = 1
               /\ loc[t].nSent = 1 /\ loc[t].nRelogin = 0 /\ loc[t].nNet = 0]_vars
    /\ [][(\E t \in Threads : Reading(t) /\ loc[t].ctx = "first")
            => UNCHANGED <<url, session>>]_vars

C11_Witness ==
    \E t \in Threads : \E u \in Threads \ {t} :
        /\ pc[t] = "done" /\ attempt[t].n = 1 /\ attempt[t].code = BUSINESS_ERROR
        /\ result[t] = BUSINESS_ERROR /\ exc[t] = "none"
        /\ pc[u] = "done" /\ attempt[u].n = 1 /\ attempt[u].kind = "http"
        /\ result[u] = HTTP_ERROR_STATUS

\* C12: relogin() of a call() ends either with a login that returned code 0
\* and a token in that very step, and only then the retry follows; or
\* without one (relogin returns false), and then call() returns at once:
\* what it returns is the envelope of the first attempt (the local
\* unauthorized envelope when none was sent), unchanged, no exception
\* leaves call(), and no request besides the first attempt was sent.
C12_FailedReloginReturnsFirst ==
    [][\A t \in Threads :
          (InRelogin(t) /\ ~InRelogin(t)')
          => IF nextToken' # nextToken
             THEN /\ pc'[t] = "want_retry" /\ loc'[t].relogin_result = "true"
                  /\ session'.iBaseToken = nextToken
             ELSE /\ pc'[t] = "done" /\ exc'[t] = "none"
                  /\ result'[t] = result[t] /\ attempt'[t] = attempt[t]
                  /\ attempt[t].n <= 1 /\ loc[t].nSent = attempt[t].n
                  /\ result[t] = IF attempt[t].n = 1 THEN attempt[t].code
                                 ELSE ERROR_UNAUTHORIZED_TO_SERVER]_vars

C12_Witness ==
    \E t \in Threads : /\ pc[t] = "done" /\ attempt[t].n = 1 /\ exc[t] = "none"
                       /\ IsReloginCode(attempt[t].code)
                       /\ result[t] = attempt[t].code
                       /\ session.iBaseToken = NoToken

\* C13: when the retry of call() comes back with an envelope, call()
\* returns: code 0 if the code of the retry is 0 or RELOGIN_ERROR_PASS,
\* else the code of the retry, also when that code is in
\* RELOGIN_ERROR_CODE; the call has then run relogin once and sent two
\* requests at most, and url and session are left as the retry found them.
C13_RetryCodeNormalised ==
    [][\A t \in Threads :
          (pc[t] = "flight" /\ loc[t].ctx = "retry" /\ pc'[t] # "flight"
           /\ attempt'[t].kind # "badjson")
          => /\ pc'[t] = "done" /\ exc'[t] = "none" /\ attempt'[t].n = 2
             /\ result'[t] = IF attempt'[t].code \in {0, RELOGIN_ERROR_PASS} THEN 0
                             ELSE attempt'[t].code
             /\ loc[t].relogin_result = "true" /\ loc[t].nRelogin = 1
             /\ loc[t].nSent <= 2
             /\ UNCHANGED <<url, session>>]_vars

C13_Witness ==
    \E t \in Threads : \E u \in Threads \ {t} :
        /\ pc[t] = "done" /\ attempt[t].n = 2 /\ attempt[t].code = RELOGIN_ERROR_PASS
        /\ result[t] = 0
        /\ pc[u] = "done" /\ attempt[u].n = 2 /\ IsReloginCode(attempt[u].code)
        /\ result[u] = attempt[u].code

\* C14: a call() that finds no url when it reads the Session sends no
\* request in its first phase (it takes no slot and does not stay in the
\* read lock for a request), its result is the unauthorized envelope made
\* locally, and its old_token is None.
C14_NoUrlLocalUnauthorized ==
    /\ [][\A t \in Threads :
            (calls' = calls + 1 /\ pc'[t] # pc[t] /\ url = NoUrl)
            => /\ result'[t] = ERROR_UNAUTHORIZED_TO_SERVER
               /\ loc'[t].old_token = NoToken
               /\ loc'[t].nSent = 0 /\ ~loc'[t].firstSent
               /\ attempt'[t].n = 0
               /\ pc'[t] \notin {"acquire", "flight"}
               /\ t \notin readers'
               /\ UNCHANGED <<semaphore, url, session>>]_vars
    /\ [](\A t \in Threads :
            (pc[t] = "want_write" /\ attempt[t].n = 0)
            => /\ result[t] = ERROR_UNAUTHORIZED_TO_SERVER
               /\ loc[t].old_token = NoToken /\ loc[t].nSent = 0)

C14_Witness ==
    \E t \in Threads : /\ url = NoUrl /\ pc[t] = "want_write"
                       /\ attempt[t].n = 0 /\ loc[t].nSent = 0
                       /\ loc[t].old_token = NoToken
                       /\ result[t] = ERROR_UNAUTHORIZED_TO_SERVER
                       /\ semaphore = SEMAPHORE_VALUE

\* login requests sent so far by the running login() of p (a relogin of
\* the second branch has sent its logout request before)
LoginsSent(p) == loc[p].nNet - (IF loc[p].branch = "relogin" THEN 1 ELSE 0)

\* C15: the k-th login request of a login() goes to the k-th item of
\* nas_address, one request per item; the next item is tried only after a
\* login request that handed out no token; and the step in which a login
\* returns code 0 ends the iteration: url becomes that item_url with the
\* deviceid, the token of the session is the token returned.
C15_LoginInOrderUntilSuccess ==
    /\ [](\A p \in Procs :
            (pc[p] \in {"acquire", "flight"} /\ loc[p].ctx = "login")
            => /\ loc[p].item \in 1..Len(nas_address)
               /\ url = <<nas_address[loc[p].item]>>
               /\ session.iBaseToken = NoToken
               /\ LoginsSent(p) = loc[p].item - (IF pc[p] = "acquire" THEN 1 ELSE 0))
    /\ [][\A p \in Procs :
            (pc[p] = "flight" /\ loc[p].ctx = "login" /\ pc'[p] # "flight")
            => IF nextToken' # nextToken
               THEN /\ url' = <<nas_address[loc[p].item], "deviceid">>
                    /\ session'.iBaseToken = nextToken
                    /\ (~InLogin(p)' \/ loc'[p].ctx = "pwlogout")
               ELSE /\ UNCHANGED <<url, session>>
                    /\ pc'[p] = "login_iter" => loc'[p].item = loc[p].item + 1]_vars

C15_Witness ==
    \E t \in Threads :
        /\ pc[t] = "want_retry" /\ loc[t].branch \in {"login", "relogin"}
        /\ loc[t].item = Len(nas_address) /\ LoginsSent(t) = Len(nas_address)
        /\ Len(nas_address) > 1
        /\ url = <<nas_address[Len(nas_address)], "deviceid">>
        /\ session.iBaseToken # NoToken

\* C16: login() leaves its loop through the else clause ("All url login
\* fail.") exactly when every item of nas_address got one login request
\* and none of them handed out a token; otherwise the loop goes on with
\* the next item. A login request that comes back without code 0 takes
\* login() to the next item, whatever the code (only an exception out of
\* do_call ends login() there, and not with this error).
C16_AllFailIffExhausted ==
    /\ [][\A p \in Procs :
            (pc[p] = "login_iter" /\ pc'[p] # "login_iter")
            => IF loc[p].item = Len(nas_address) + 1 /\ LoginsSent(p) = Len(nas_address)
               THEN /\ ~InLogin(p)'
                    /\ pc'[p] = (IF p = Driver THEN "raised" ELSE "done")
                    /\ p = Driver => exc'[p] = "All url login fail."
               ELSE /\ loc[p].item \in 1..Len(nas_address)
                    /\ LoginsSent(p) = loc[p].item - 1
                    /\ pc'[p] = "acquire" /\ loc'[p].ctx = "login"]_vars
    /\ [][(exc[Driver] # "All url login fail." /\ exc'[Driver] = "All url login fail.")
            => /\ pc[Driver] = "login_iter"
               /\ loc[Driver].item = Len(nas_address) + 1
               /\ LoginsSent(Driver) = Len(nas_address)]_vars
    /\ [][\A p \in Procs :
            (pc[p] = "flight" /\ loc[p].ctx = "login" /\ pc'[p] # "flight"
             /\ nextToken' = nextToken)
            => \/ pc'[p] = "login_iter" /\ loc'[p].item = loc[p].item + 1
               \/ p = Driver /\ pc'[p] = "raised" /\ exc'[p] = "ValueError"
               \/ p # Driver /\ pc'[p] = "done"]_vars

C16_Witness ==
    /\ pc[Driver] = "raised" /\ exc[Driver] = "All url login fail."
    /\ Len(nas_address) > 1
    /\ url = <<nas_address[Len(nas_address)]>>
    /\ session.iBaseToken = NoToken

\* C17: a login that returned code 0 with an expired or initial password
\* goes straight to the logout request for the session it just opened
\* (url and token of that login, the token travels with the request), tries
\* no further item_url, and login() ends with an exception once that
\* request is back; it never ends normally.
C17_PwdExpiredLogsOutAndFails ==
    /\ [](\A p \in Procs :
            loc[p].accountstate = "expired"
            => /\ loc[p].ctx = "pwlogout" /\ pc[p] \in {"acquire", "flight"}
               /\ url = <<nas_address[loc[p].item], "deviceid">>
               /\ session.iBaseToken # NoToken
               /\ loc[p].relogin_result = "none"
               /\ pc[p] = "flight" => loc[p].reqTok = session.iBaseToken)
    /\ [][\A p \in Procs :
            (loc[p].accountstate # "expired" /\ loc'[p].accountstate = "expired")
            => /\ pc[p] = "flight" /\ loc[p].ctx = "login"
               /\ pc'[p] = "acquire" /\ loc'[p].item = loc[p].item]_vars
    /\ [][\A p \in Procs :
            (loc[p].accountstate = "expired" /\ pc[p] = "flight" /\ pc'[p] # "flight")
            => /\ pc'[p] = (IF p = Driver THEN "raised" ELSE "done")
               /\ p = Driver => exc'[p] \in {"Password has expired or initial",
                                              "Logout session error.", "ValueError"}
               /\ UNCHANGED <<url, session, nextToken>>]_vars

C17_Witness ==
    /\ pc[Driver] = "raised" /\ exc[Driver] = "Password has expired or initial"
    /\ Len(url) = 2 /\ session.iBaseToken # NoToken

\* the Session holds a url with deviceid and a token, both set by a login
\* that returned code 0
Usable == Len(url) = 2 /\ session.iBaseToken # NoToken

\* C18: in the step in which relogin() of a call() returns true, the
\* Session is usable.
C18_ReloginTrueMeansUsable ==
    [][\A t \in Threads :
          (loc[t].relogin_result = "none" /\ loc'[t].relogin_result = "true")
          => Usable']_vars

\* C19: the k-th fetch of the pager asks for the window that starts at
\* (k-1) * MAX_QUERY_COUNT; when the pager returns over a list of n
\* objects it has made n \div MAX_QUERY_COUNT + 1 fetches, all full but
\* the last, and info_list is the n objects in the order of the array.
C19_PagerFetchesAll ==
    /\ \A k \in 1..Len(fetched) : fetched[k][1] = (k - 1) * MAX_QUERY_COUNT
    /\ pgpc = "returned"
       => /\ Len(fetched) = (Len(dataset) \div MAX_QUERY_COUNT) + 1
          /\ \A k \in 1..(Len(fetched) - 1) : fetched[k][2] = MAX_QUERY_COUNT
          /\ fetched[Len(fetched)][2] = Len(dataset) % MAX_QUERY_COUNT
          /\ info_list = dataset

C19_Witness ==
    /\ pgpc = "returned" /\ MAX_QUERY_COUNT = 2 /\ Len(dataset) = 5
    /\ fetched = << <<0, 2>>, <<2, 2>>, <<4, 1>> >>
    /\ info_list = <<1, 2, 3, 4, 5>>

\* C20: no exception of logout() for a rejected session delete ("Logout
\* session error.") leaves logout(); seen where nothing catches it on the
\* way out, in the login() of the start-up.
C20_LogoutNeverRaises ==
    \A p \in Procs : exc[p] # "Logout session error."

\* C21: relogin(old_token) that finds a url and a token in the session
\* other than old_token returns true in that step: no login or logout
\* request is sent (no slot taken, no token handed out), url and session
\* are unchanged.
C21_OtherBranchIsFree ==
    [][\A t \in Threads :
          (pc[t] = "want_write" /\ pc'[t] # "want_write"
           /\ url # NoUrl /\ session.iBaseToken # loc[t].old_token)
          => /\ pc'[t] = "want_retry" /\ loc'[t].relogin_result = "true"
             /\ loc'[t].branch = "other"
             /\ loc'[t].nNet = 0 /\ loc'[t].nRelogin = 1
             /\ UNCHANGED <<url, session, semaphore, nextToken>>]_vars

C21_Witness ==
    \E t \in Threads :
        /\ pc[t] = "want_retry" /\ loc[t].branch = "other"
        /\ loc[t].relogin_result = "true" /\ loc[t].nNet = 0
        /\ loc[t].old_token # NoToken
        /\ session.iBaseToken \notin {NoToken, loc[t].old_token}
        /\ Len(url) = 2

\* C22: relogin(old_token) of the second branch (url set, token of the
\* session equal to old_token) sends its logout request before any login
\* request; when the logout request is back, with whatever outcome, it goes
\* on to login(); no exception leaves it; and it returns true exactly when
\* its login() ended with a code-0 login (otherwise false: call() returns).
C22_LogoutThenLogin ==
    /\ [](\A t \in Threads :
            (loc[t].branch = "relogin" /\ InRelogin(t))
            => IF pc[t] # "login_iter" /\ loc[t].ctx = "logout"
               THEN /\ pc[t] \in {"acquire", "flight"}
                    /\ loc[t].nNet = (IF pc[t] = "flight" THEN 1 ELSE 0)
               ELSE /\ InLogin(t) /\ LoginsSent(t) >= 0)
    /\ [][\A t \in Threads :
            (loc[t].ctx = "logout" /\ pc[t] = "flight" /\ pc'[t] # "flight")
            => /\ pc'[t] = "login_iter" /\ loc'[t].item = 1
               /\ exc'[t] = "none" /\ LoginsSent(t)' = 0]_vars
    /\ [][\A t \in Threads :
            (loc[t].branch = "relogin" /\ InRelogin(t) /\ ~InRelogin(t)')
            => /\ exc'[t] = "none"
               /\ IF nextToken' # nextToken
                  THEN loc'[t].relogin_result = "true" /\ pc'[t] = "want_retry"
                  ELSE pc'[t] = "done" /\ result'[t] = result[t]]_vars

C22_Witness ==
    \E t \in Threads :
        /\ loc[t].branch = "relogin" /\ loc[t].logoutFailed
        /\ loc[t].relogin_result = "true" /\ pc[t] = "want_retry"
        /\ LoginsSent(t) >= 1 /\ session.iBaseToken # NoToken

\* C23: every page before the last one fetched is full, so the first
\* short page ends the loop; the loop never asks for a window beyond the
\* end of the list; the pager ends (returns, or raises what func raised);
\* and over a list whose length is a multiple of MAX_QUERY_COUNT (0
\* included) the last page is empty and info_list is still the whole list.
C23_PagerStopsAtShortPage ==
    /\ [](/\ \A k \in 1..(Len(fetched) - 1) : fetched[k][2] = MAX_QUERY_COUNT
          /\ pgpc = "loop" =>
                /\ \A k \in 1..Len(fetched) : fetched[k][2] = MAX_QUERY_COUNT
                /\ range_start <= Len(dataset)
          /\ pgpc = "returned" =>
                /\ fetched[Len(fetched)][2] < MAX_QUERY_COUNT
                /\ info_list = dataset
                /\ Len(dataset) % MAX_QUERY_COUNT = 0 => fetched[Len(fetched)][2] = 0)
    /\ <>(pgpc \in {"returned", "raised"})

C23_Witness ==
    /\ pgpc = "returned" /\ MAX_QUERY_COUNT = 2 /\ Len(dataset) = 4
    /\ fetched = << <<0, 2>>, <<2, 2>>, <<4, 0>> >>
    /\ info_list = <<1, 2, 3, 4>>

\* C24: a login request in flight carries no iBaseToken header, for every
\* item_url and in every caller of login() (start-up, relogin of a Session
\* that was never logged in, relogin of a Session that held a token).
C24_LoginRequestWithoutToken ==
    \A p \in Procs :
        (pc[p] = "flight" /\ loc[p].ctx = "login") => loc[p].reqTok = NoToken

C24_Witness ==
    \E t \in Threads :
        /\ pc[t] = "flight" /\ loc[t].ctx = "login"
        /\ loc[t].branch = "relogin" /\ loc[t].old_token # NoToken
        /\ loc[t].item = Len(nas_address) /\ Len(nas_address) > 1
        /\ loc[t].reqTok = NoToken

\* C25: a call() is never kept waiting by other call()s that hold the read
\* lock or have requests in flight: whenever no relogin holds the write
\* lock, a thread can enter call() (while calls are left to make), and
\* with a free slot a request waiting at the semaphore can leave.
C25_ReadersDoNotSerialize ==
    /\ \A t \in Threads :
          (pc[t] \in {"idle", "done", "raised"} /\ pc[Driver] \in {"done", "skipped"}
           /\ calls < MaxCalls /\ writer = NoThread)
          => ENABLED CallBegin(t)
    /\ \A t \in Threads :
          (pc[t] = "acquire" /\ InFlight < SEMAPHORE_VALUE) => ENABLED DoCallAcquire(t)

\* two call()s in the read lock with their first attempts in flight on a
\* logged-in Session
C25_Witness ==
    \E t \in Threads : \E u \in Threads \ {t} :
        /\ Usable /\ SEMAPHORE_VALUE >= 2
        /\ {t, u} \subseteq readers
        /\ pc[t] = "flight" /\ loc[t].ctx = "first"
        /\ pc[u] = "flight" /\ loc[u].ctx = "first"
        /\ InFlight = 2

\* C26: from the moment call() reads old_token to the return of its first
\* attempt the token of the session is old_token, the request of the first
\* attempt carries it, and it is what the call holds for relogin() when it
\* waits for the write lock.
C26_OldTokenIsRequestToken ==
    \A t \in Threads :
        /\ (Reading(t) /\ loc[t].ctx = "first")
           => /\ session.iBaseToken = loc[t].old_token
              /\ pc[t] = "flight" => loc[t].reqTok = loc[t].old_token
        /\ (pc[t] = "want_write" /\ loc[t].firstSent)
           => /\ loc[t].reqTok = loc[t].old_token
              /\ loc[t].nSent = 1 /\ attempt[t].n = 1

C26_Witness ==
    \E t \in Threads :
        /\ pc[t] = "want_write" /\ loc[t].firstSent
        /\ loc[t].old_token # NoToken /\ loc[t].reqTok = loc[t].old_token
        /\ session.iBaseToken \notin {NoToken, loc[t].old_token}

C29_FailedLoginClearsUrl ==
    [][\A p \in Procs :
          (InLogin(p) /\ ~InLogin(p)' /\ nextToken' = nextToken
           /\ (pc[p] = "login_iter" \/ loc[p].ctx = "pwlogout"))
          => url' = NoUrl]_vars

\* C30: a call() that is in the read lock for its first attempt or its
\* retry, or about to enter it for the retry, finds a url and a session,
\* and no TypeError or AttributeError of do_call leaves call().
C30_DoCallFindsUrl ==
    \A t \in Threads :
        /\ (Reading(t) \/ pc[t] = "want_retry") => (url # NoUrl /\ session.live)
        /\ exc[t] \notin {"TypeError", "AttributeError"}

C30_Witness ==
    \E t \in Threads :
        /\ pc[t] = "flight" /\ loc[t].ctx = "retry" /\ loc[t].branch = "other"
        /\ url # NoUrl /\ session.live /\ session.iBaseToken = NoToken

\* C28: every call() that has been started returns.
C28_EveryCallReturns ==
    \A i \in LockThreads : (lk[i] # "idle") ~> (lk[i] = "idle")

====
